---- MODULE Spec2Model ----
(***************************************************************************)
(* A model of DongRadar's CinradReaderSTD: the decoder read_data, stepped  *)
(* block by block over a byte stream, and the query methods that read the  *)
(* decoded dataset.                                                        *)
(*                                                                         *)
(* Bytes are integers 0..255.  A Python dict is a function whose domain is *)
(* its key set ({} is the empty function), a Python list is a sequence.    *)
(* A decoded bin value x/y is kept as the reduced fraction <<x, y>>.       *)
(***************************************************************************)
EXTENDS Integers, Sequences, FiniteSets, TLC

VARIABLES
    data,        \* self.data
    last_error,  \* self.last_error
    status,      \* outcome of the last read_data call: "none", "reading", "ok" or the exception
    pc,          \* the block read_data reads next: "idle" when no call is running
    pos,         \* bytes consumed from the stream by the running / last call
    short,       \* a read of the running / last call returned fewer bytes than asked
    ci,          \* read_data's cut loop variable i
    pdata,       \* read_data's local pdata: the radial header being processed
    ri,          \* read_data's moment loop variable ri
    magic,       \* the bytes block_data[0:4] of the running / last call
    blocks,      \* kinds of the blocks read by the running / last call, in order
    rlog,        \* per radial of the running / last call: its header and its read moments
    dh,          \* read_data's local dh: the moment header unpacked last, <<>> if none
    payload,     \* the bytes the f.read(dh['length']) of that moment returned
    ndecodes,    \* number of read_data calls made on the reader
    nfailed,     \* number of read_data calls on the reader that raised
    qop,         \* the query method called last, "none" before the first
    qargs,       \* its arguments
    qres         \* what it returned or raised

decvars == <<data, last_error, status, pc, pos, short, ci, pdata, ri, magic,
             blocks, rlog, dh, payload, ndecodes, nfailed>>

qvars == <<qop, qargs, qres>>

vars == <<decvars, qvars>>

----------------------------------------------------------------------------
(* Bounds of the model *)

MaxDecodes == 2      \* read_data calls on a reused reader
MaxRadials == 2      \* complete radial headers a stream delivers
MaxSpan == 3         \* bytes of the spans rhexgbk is given
MaxLen == 3          \* radials of the decoded datasets the queries run on

(* Block sizes of the format *)

GenericHeaderSize == 32
SiteConfSize == 128
TaskConfSize == 256
CutConfSize == 256
RadialHeaderSize == 64
MomentHeaderSize == 32

(* Inputs: what the streams may hold *)

RSTM == <<82, 83, 84, 77>>

MagicSet == { RSTM,
              <<82, 83, 84, 84>>,        \* "RSTT"
              <<82, 83, 0, 77>>,         \* "RS\0M"
              <<176, 176, 84, 77>>,      \* a valid gb2312 pair, then "TM"
              <<255, 255, 255, 255>>,    \* no gb2312 text
              <<176, 0, 84, 77>> }       \* a lone gb2312 lead byte before the zero

TaskNames == {"VCP21"}
CutNumbers == {0, 1, 2}
RadialStates == {0, 4}
ElevationNumbers == {1, 2}
Azimuths == {10}
MomentNumbers == {0, 1, 2}
DataTypes == {2, 3, 13}
Scales == {2}
Offsets == {1}
BinLengths == {1, 2, 3}
Lengths == {1}
RawBytes == {3}

----------------------------------------------------------------------------
(* Python helpers *)

Min(a, b) == IF a < b THEN a ELSE b

IsEmpty(d) == DOMAIN d = {}

\* b[:n] for a Python bytes / list b and an integer n (negative n counts from the end)
PyPrefix(b, n) ==
    IF n >= 0 THEN SubSeq(b, 1, Min(n, Len(b)))
    ELSE SubSeq(b, 1, Len(b) + n)

\* b.find(0x00): the 0-based index of the first zero byte, -1 when there is none
Find0(b) ==
    IF \E k \in 1..Len(b) : b[k] = 0
    THEN (CHOOSE k \in 1..Len(b) : b[k] = 0 /\ \A j \in 1..(k - 1) : b[j] # 0) - 1
    ELSE -1

\* The two-byte characters of Python's gb2312 codec
Gb2312Pair(l, t) ==
    \/ l \in {161, 163} /\ t \in 161..254
    \/ l = 162 /\ t \in (177..226) \cup (229..238) \cup (241..252)
    \/ l = 164 /\ t \in 161..243
    \/ l = 165 /\ t \in 161..246
    \/ l = 166 /\ t \in (161..184) \cup (193..216)
    \/ l = 167 /\ t \in (161..193) \cup (209..241)
    \/ l = 168 /\ t \in (161..186) \cup (197..233)
    \/ l = 169 /\ t \in 164..239
    \/ l \in (176..247) \ {215} /\ t \in 161..254
    \/ l = 215 /\ t \in 161..249

RECURSIVE Gb2312Ok(_)
\* str(b, 'gb2312') does not raise UnicodeDecodeError
Gb2312Ok(b) ==
    IF b = <<>> THEN TRUE
    ELSE IF b[1] < 128 THEN Gb2312Ok(Tail(b))
    ELSE IF Len(b) >= 2 /\ Gb2312Pair(b[1], b[2]) THEN Gb2312Ok(Tail(Tail(b)))
    ELSE FALSE

RECURSIVE Gb2312Text(_)
\* str(b, 'gb2312'): an ASCII byte is its own character, a pair is the character 256*l + t
Gb2312Text(b) ==
    IF b = <<>> THEN <<>>
    ELSE IF b[1] < 128 THEN <<b[1]>> \o Gb2312Text(Tail(b))
    ELSE <<256 * b[1] + b[2]>> \o Gb2312Text(Tail(Tail(b)))

\* The span rhexgbk decodes when an encoding is given
RhexSpan(bytes_data) ==
    IF Find0(bytes_data) = -1 THEN bytes_data
    ELSE PyPrefix(bytes_data, Find0(bytes_data))

\* rhexgbk(bytes_data, encoding) raises
RhexRaises(bytes_data, encoding) ==
    encoding # "None" /\ ~Gb2312Ok(RhexSpan(bytes_data))

\* rhexgbk(bytes_data, encoding) when it does not raise
rhexgbk(bytes_data, encoding) ==
    IF encoding = "None" THEN PyPrefix(bytes_data, Find0(bytes_data))
    ELSE Gb2312Text(RhexSpan(bytes_data))

RECURSIVE Gcd(_, _)
Gcd(a, b) == IF b = 0 THEN a ELSE Gcd(b, a % b)

Abs(x) == IF x < 0 THEN -x ELSE x

\* n / d with d > 0, as a reduced fraction
Frac(n, d) ==
    LET g == Gcd(Abs(n), d) IN <<n \div g, d \div g>>

----------------------------------------------------------------------------
(* The decoder *)

get_datatype_byid_known(typeid) ==
    typeid \in (1..12) \cup (14..17) \cup (32..35)

\* get_datatype_byid with every code taken for dBZ
get_datatype_byid_dBZ(typeid) == "dBZ"

get_datatype_byid(typeid) ==
    CASE typeid = 1 -> "dBT"   [] typeid = 2 -> "dBZ"   [] typeid = 3 -> "V"
      [] typeid = 4 -> "W"     [] typeid = 5 -> "SQI"   [] typeid = 6 -> "CPA"
      [] typeid = 7 -> "ZDR"   [] typeid = 8 -> "LDR"   [] typeid = 9 -> "CC"
      [] typeid = 10 -> "DP"   [] typeid = 11 -> "KDP"  [] typeid = 12 -> "CP"
      [] typeid = 14 -> "HCL"  [] typeid = 15 -> "CF"   [] typeid = 16 -> "SNRH"
      [] typeid = 17 -> "SNRV" [] typeid = 32 -> "Zc"   [] typeid = 33 -> "Vc"
      [] typeid = 34 -> "Wc"   [] typeid = 35 -> "ZDRc"

\* np.frombuffer(raw, dtype='u1' | 'u2') for a buffer it accepts
RECURSIVE Frombuffer(_, _)
Frombuffer(raw, binLength) ==
    IF binLength = 1 THEN raw
    ELSE IF Len(raw) < 2 THEN <<>>
    ELSE <<raw[1] + 256 * raw[2]>> \o Frombuffer(Tail(Tail(raw)), binLength)

\* np.frombuffer raises ValueError: the buffer is no whole number of elements
FrombufferRaises(raw, binLength) == Len(raw) % binLength # 0

\* DecodeBin with the product taken for every scale
DecodeBinMultiply(raw, offset, scale) == <<(raw - offset) * scale, 1>>

\* one bin of (radial_numpy - offset) / scale, or * scale
DecodeBin(raw, offset, scale) ==
    IF scale > 0 THEN Frac(raw - offset, scale)
    ELSE <<(raw - offset) * scale, 1>>

DecodeRow(row, offset, scale) ==
    [k \in 1..Len(row) |-> DecodeBin(row[k], offset, scale)]

EmptyData ==
    [common_block |-> [generic_header |-> <<>>, site_conf |-> <<>>,
                       task_conf |-> <<>>, cut_conf |-> <<>>],
     radial_block |-> <<>>,
     radial |-> <<>>]

\* the arrays of a moment key as read_data creates them
NewArrays ==
    [data |-> <<>>, dataLength |-> <<>>, radialState |-> <<>>, spotBlank |-> <<>>,
     sequenceNumber |-> <<>>, radialNumber |-> <<>>, elevationNumber |-> <<>>,
     azimuth |-> <<>>, elevation |-> <<>>, seconds |-> <<>>, microseconds |-> <<>>,
     horizontalEstimatedNoise |-> <<>>, verticalEstimatedNoise |-> <<>>,
     ppiElevation |-> <<>>, rhiAzimuth |-> <<>>]

\* AppendMoment with the azimuth append left out
AppendMomentNoAzimuth(a, p, radial_numpy) ==
    [a EXCEPT
       !.data = Append(@, radial_numpy),
       !.dataLength = Append(@, Len(radial_numpy)),
       !.radialState = Append(@, p.radialState),
       !.spotBlank = Append(@, p.spotBlank),
       !.sequenceNumber = Append(@, p.sequenceNumber),
       !.radialNumber = Append(@, p.radialNumber),
       !.elevationNumber = Append(@, p.elevationNumber),
       !.elevation = Append(@, p.elevation),
       !.seconds = Append(@, p.seconds),
       !.microseconds = Append(@, p.microseconds),
       !.horizontalEstimatedNoise = Append(@, p.horizontalEstimatedNoise),
       !.verticalEstimatedNoise = Append(@, p.verticalEstimatedNoise)]

\* the appends of one decoded moment of radial p to the arrays a
AppendMoment(a, p, radial_numpy) ==
    [a EXCEPT
       !.data = Append(@, radial_numpy),
       !.dataLength = Append(@, Len(radial_numpy)),
       !.radialState = Append(@, p.radialState),
       !.spotBlank = Append(@, p.spotBlank),
       !.sequenceNumber = Append(@, p.sequenceNumber),
       !.radialNumber = Append(@, p.radialNumber),
       !.elevationNumber = Append(@, p.elevationNumber),
       !.azimuth = Append(@, p.azimuth),
       !.elevation = Append(@, p.elevation),
       !.seconds = Append(@, p.seconds),
       !.microseconds = Append(@, p.microseconds),
       !.horizontalEstimatedNoise = Append(@, p.horizontalEstimatedNoise),
       !.verticalEstimatedNoise = Append(@, p.verticalEstimatedNoise)]

\* self.data['radial'] after one decoded moment is stored under datakey
StoreMoment(radial, datakey, p, radial_numpy) ==
    LET base == IF datakey \in DOMAIN radial THEN radial
                ELSE (datakey :> NewArrays) @@ radial
    IN [base EXCEPT ![datakey] = AppendMoment(@, p, radial_numpy)]

\* f.read(n): the byte counts a read of n bytes may return
ReadSizes(n) == IF short THEN {0} ELSE {n} \cup {k \in {0, n - 1} : k >= 0}

\* f.read(length) of a payload: whole, or cut one byte short by the end of the stream
PayloadSizes(length) == IF short THEN {0} ELSE {k \in {length - 1, length} : k >= 0}

\* read_data returns or raises: its locals are gone
Finish(st) ==
    /\ status' = st
    /\ pc' = "idle"
    /\ ci' = 0
    /\ ri' = 0
    /\ pdata' = <<>>

Raise(err) ==
    /\ Finish(err)
    /\ nfailed' = nfailed + 1
    /\ UNCHANGED data

\* EndRadial with the loop left after any radial
EndRadialAnyState(p) == Finish("ok") /\ UNCHANGED nfailed

\* the test "if pdata['radialState']==4" that ends a radial
EndRadial(p) ==
    IF p.radialState = 4 THEN Finish("ok") /\ UNCHANGED nfailed
    ELSE /\ UNCHANGED nfailed
         /\ status' = "reading"
         /\ pc' = "radial"
         /\ ci' = ci
         /\ ri' = 0
         /\ pdata' = <<>>

\* read_data: open the stream, read and check the generic header
ReadGenericHeaderOf(calls, magics) ==
    /\ pc = "idle"
    /\ ndecodes < calls
    /\ \E m \in magics, got \in {0, 3, 4, GenericHeaderSize - 1, GenericHeaderSize} :
         /\ ndecodes' = ndecodes + 1
         /\ pos' = got
         /\ short' = (got < GenericHeaderSize)
         /\ magic' = PyPrefix(m, got)
         /\ blocks' = <<"generic">>
         /\ rlog' = <<>>
         /\ dh' = <<>>
         /\ payload' = <<>>
         /\ UNCHANGED <<last_error, qvars>>
         /\ IF got < 4 THEN Raise("StructError")
            ELSE IF RhexRaises(m, "gb2312") THEN Raise("UnicodeDecodeError")
            ELSE IF rhexgbk(m, "gb2312") # RSTM THEN Raise("BadMagic")
            ELSE IF got < GenericHeaderSize THEN Raise("StructError")
            ELSE /\ data' = [data EXCEPT !.common_block.generic_header =
                               [magicNumber |-> rhexgbk(m, "gb2312"),
                                majorVersion |-> 1, minorVersion |-> 0,
                                genericType |-> 1, productType |-> 1]]
                 /\ status' = "reading"
                 /\ pc' = "site"
                 /\ ci' = 0
                 /\ ri' = 0
                 /\ pdata' = <<>>
                 /\ UNCHANGED nfailed

ReadGenericHeader == ReadGenericHeaderOf(1, MagicSet)

\* read_data: the site configuration block
ReadSiteConf ==
    /\ pc = "site"
    /\ \E got \in ReadSizes(SiteConfSize) :
         /\ pos' = pos + got
         /\ short' = (short \/ got < SiteConfSize)
         /\ blocks' = Append(blocks, "site")
         /\ UNCHANGED <<last_error, magic, rlog, dh, payload, ndecodes, qvars>>
         /\ IF got < SiteConfSize THEN Raise("StructError")
            ELSE /\ data' = [data EXCEPT !.common_block.site_conf =
                               [siteCode |-> <<90>>, latitude |-> 0, longitude |-> 0,
                                antennaHeight |-> 0]]
                 /\ pc' = "task"
                 /\ UNCHANGED <<status, ci, ri, pdata, nfailed>>

\* read_data: the task configuration block
ReadTaskConfOf(cutNumbers) ==
    /\ pc = "task"
    /\ \E got \in ReadSizes(TaskConfSize), name \in TaskNames, cutNumber \in cutNumbers :
         /\ pos' = pos + got
         /\ short' = (short \/ got < TaskConfSize)
         /\ blocks' = Append(blocks, "task")
         /\ UNCHANGED <<last_error, magic, rlog, dh, payload, ndecodes, qvars>>
         /\ IF got < TaskConfSize THEN Raise("StructError")
            ELSE /\ data' = [data EXCEPT !.common_block.task_conf =
                               [taskName |-> name, cutNumber |-> cutNumber]]
                 /\ pc' = IF 0 < cutNumber THEN "cut" ELSE "radial"
                 /\ ci' = 0
                 /\ UNCHANGED <<status, ri, pdata, nfailed>>

ReadTaskConf == ReadTaskConfOf(CutNumbers)

\* the cut configuration block with 0-based index i in its stream
CutConf(i) ==
    [logResolution |-> 250 * (i + 1), dopplerResolution |-> 125 * (i + 1),
     elevation |-> i + 1]

\* read_data: one pass of the cut configuration loop
ReadCutConf ==
    /\ pc = "cut"
    /\ \E got \in ReadSizes(CutConfSize) :
         /\ pos' = pos + got
         /\ short' = (short \/ got < CutConfSize)
         /\ blocks' = Append(blocks, "cut")
         /\ UNCHANGED <<last_error, magic, rlog, dh, payload, ndecodes, qvars>>
         /\ IF got < CutConfSize THEN Raise("StructError")
            ELSE /\ data' = [data EXCEPT !.common_block.cut_conf =
                               Append(@, CutConf(ci))]
                 /\ ci' = ci + 1
                 /\ pc' = IF ci + 1 < data.common_block.task_conf.cutNumber
                          THEN "cut" ELSE "radial"
                 /\ UNCHANGED <<status, ri, pdata, nfailed>>

\* the radial header with ordinal n in its stream
RadialHeader(n, state, elev, az, mnum) ==
    [radialState |-> state, spotBlank |-> 0, sequenceNumber |-> n, radialNumber |-> n,
     elevationNumber |-> elev, azimuth |-> az, elevation |-> elev,
     seconds |-> 100 + n, microseconds |-> n, momentNumber |-> mnum,
     horizontalEstimatedNoise |-> n, verticalEstimatedNoise |-> n + 1]

\* read_data: the radial header that opens one pass of the radial loop
ReadRadialHeaderOf(elevs, mnums) ==
    /\ pc = "radial"
    /\ \E got \in ReadSizes(RadialHeaderSize), state \in RadialStates,
          elev \in elevs, az \in Azimuths, mnum \in mnums :
         /\ got = RadialHeaderSize => Len(rlog) < MaxRadials
         /\ pos' = pos + got
         /\ short' = (short \/ got < RadialHeaderSize)
         /\ blocks' = Append(blocks, "radial")
         /\ UNCHANGED <<last_error, magic, dh, payload, ndecodes, qvars>>
         /\ IF got < RadialHeaderSize
            THEN /\ Raise("StructError")
                 /\ UNCHANGED rlog
            ELSE LET p == RadialHeader(Len(rlog) + 1, state, elev, az, mnum) IN
                 /\ rlog' = Append(rlog, [header |-> p, moments |-> <<>>])
                 /\ UNCHANGED data
                 /\ IF 0 < mnum
                    THEN /\ pc' = "moment"
                         /\ pdata' = p
                         /\ ri' = 0
                         /\ UNCHANGED <<status, ci, nfailed>>
                    ELSE EndRadial(p)

ReadRadialHeader == ReadRadialHeaderOf(ElevationNumbers, MomentNumbers)

\* read_data: one pass of the moment loop: header, payload, decode, store
ReadMomentWith(dataTypes, binLengths, scales, offsets, lengths, rawBytes) ==
    /\ pc = "moment"
    /\ \E hgot \in ReadSizes(MomentHeaderSize), dataType \in dataTypes, scale \in scales,
          offset \in offsets, binLength \in binLengths, length \in lengths :
       \E pgot \in PayloadSizes(length) :
       \E raw \in [1..pgot -> rawBytes] :
         /\ hgot < MomentHeaderSize => pgot = 0
         /\ UNCHANGED <<last_error, magic, ndecodes, qvars>>
         /\ dh' = IF hgot < 20 THEN <<>>
                  ELSE [dataType |-> dataType, scale |-> scale, offset |-> offset,
                        binLength |-> binLength, length |-> length]
         /\ payload' = raw
         /\ IF hgot < MomentHeaderSize
            THEN /\ pos' = pos + hgot
                 /\ short' = TRUE
                 /\ blocks' = Append(blocks, "moment")
                 /\ Raise("StructError")
                 /\ UNCHANGED rlog
            ELSE /\ pos' = pos + hgot + pgot
                 /\ short' = (short \/ pgot < length)
                 /\ blocks' = blocks \o <<"moment", "payload">>
                 /\ IF binLength \notin {1, 2}
                    THEN Raise("UnsupportedBinLength") /\ UNCHANGED rlog
                    ELSE IF FrombufferRaises(raw, binLength)
                    THEN Raise("ValueError") /\ UNCHANGED rlog
                    ELSE IF ~get_datatype_byid_known(dataType)
                    THEN Raise("UnknownDataType") /\ UNCHANGED rlog
                    ELSE LET radial_numpy ==
                                 DecodeRow(Frombuffer(raw, binLength), offset, scale)
                             datakey == get_datatype_byid(dataType)
                         IN /\ data' = [data EXCEPT !.radial =
                                          StoreMoment(@, datakey, pdata, radial_numpy)]
                            /\ rlog' = [rlog EXCEPT ![Len(rlog)].moments =
                                          Append(@, [datakey |-> datakey, length |-> length,
                                                     got |-> pgot, row |-> radial_numpy])]
                            /\ IF ri + 1 < pdata.momentNumber
                               THEN /\ ri' = ri + 1
                                    /\ UNCHANGED <<status, pc, ci, pdata, nfailed>>
                               ELSE EndRadial(pdata)

ReadMomentOf(dataTypes, binLengths) ==
    ReadMomentWith(dataTypes, binLengths, Scales, Offsets, Lengths, RawBytes)

ReadMoment == ReadMomentOf(DataTypes, BinLengths)

DecInit ==
    /\ data = EmptyData
    /\ last_error = ""
    /\ status = "none"
    /\ pc = "idle"
    /\ pos = 0
    /\ short = FALSE
    /\ ci = 0
    /\ pdata = <<>>
    /\ ri = 0
    /\ magic = <<>>
    /\ blocks = <<>>
    /\ rlog = <<>>
    /\ dh = <<>>
    /\ payload = <<>>
    /\ ndecodes = 0
    /\ nfailed = 0
    /\ qop = "none"
    /\ qargs = <<>>
    /\ qres = <<>>

DecNext ==
    \/ ReadGenericHeader
    \/ ReadSiteConf
    \/ ReadTaskConf
    \/ ReadCutConf
    \/ ReadRadialHeader
    \/ ReadMoment

\* one read_data call on a fresh reader
Spec == DecInit /\ [][DecNext]_vars

\* a reader that is given up to MaxDecodes streams, one after the other
ReuseNext ==
    \/ ReadGenericHeaderOf(MaxDecodes, {RSTM})
    \/ ReadSiteConf
    \/ ReadTaskConfOf({1, 2})
    \/ ReadCutConf
    \/ ReadRadialHeaderOf({1}, {0, 1})
    \/ ReadMomentOf({2}, {1})

SpecReuse == DecInit /\ [][ReuseNext]_vars

\* moment headers and payloads for the decoding of the bins
BinScales == {100, 0, -2}
BinOffsets == {0, 1}
BinPayloadLengths == {2}
BinRawBytes == {50, 3}

\* one read_data call on a stream of one cut, one dBZ moment per radial
BinNext ==
    \/ ReadGenericHeaderOf(1, {RSTM})
    \/ ReadSiteConf
    \/ ReadTaskConfOf({1})
    \/ ReadCutConf
    \/ ReadRadialHeaderOf({1}, {1})
    \/ ReadMomentWith({2}, {1, 2}, BinScales, BinOffsets, BinPayloadLengths, BinRawBytes)

SpecBins == DecInit /\ [][BinNext]_vars

\* the moment type codes of the streams: the codes of the table, the gaps
\* 13 and 18..31, and -1, 0 and 36 around it
TypeCodes == (-1)..36

\* one read_data call on a stream of one cut, one moment of any type per radial
TypeNext ==
    \/ ReadGenericHeaderOf(1, {RSTM})
    \/ ReadSiteConf
    \/ ReadTaskConfOf({1})
    \/ ReadCutConf
    \/ ReadRadialHeaderOf({1}, {1})
    \/ ReadMomentWith(TypeCodes, {1, 3}, Scales, Offsets, Lengths, RawBytes)

SpecTypes == DecInit /\ [][TypeNext]_vars

----------------------------------------------------------------------------
(* The queries.  A query returns [kind |-> "value", val |-> v], or            *)
(* [kind |-> "None"] for Python's None, or [kind |-> e] for the exception e  *)
(* it raises.  Where a value may be None, None is <<>> and the integer n is  *)
(* <<n>>.  Angles are in hundredths of a degree, distances in metres,        *)
(* latitudes and longitudes in thousandths of a degree.                      *)

None == <<>>
Some(n) == <<n>>

Value(v) == [kind |-> "value", val |-> v]
Exc(e) == [kind |-> e]

\* l[i] for a Python list l and an index i it accepts
PyAt(l, i) == IF i >= 0 THEN l[i + 1] ELSE l[Len(l) + i + 1]

\* l[i] raises IndexError
PyAtRaises(l, i) == i >= Len(l) \/ i < -Len(l)

\* l[start:end] for a Python list l, start >= 0, and end an integer >= 0 or None
PySlice(l, start, end) ==
    SubSeq(l, start + 1, IF end = None THEN Len(l) ELSE Min(end[1], Len(l)))

VcpNames == {"VCP11", "VCP11D", "VCP21", "VCP21D", "VCP31", "VCP31D", "VCP32", "VCP32D"}

vcp_standard_elevation(vcp) ==
    CASE vcp = "VCP11" -> <<50, 145, 240, 335, 430, 525, 620, 750, 870, 1000, 1200, 1400,
                            1670, 1950>>
      [] vcp = "VCP11D" -> <<48, 48, 149, 149, 242, 334, 431, 523, 620, 751, 870, 1002,
                             1200, 1402, 1670, 1951>>
      [] vcp = "VCP21" -> <<50, 145, 240, 335, 430, 600, 990, 1460, 1950>>
      [] vcp = "VCP21D" -> <<53, 53, 145, 145, 242, 343, 431, 602, 993, 1459, 1951>>
      [] vcp = "VCP31" -> <<50, 150, 250, 350, 450>>
      [] vcp = "VCP31D" -> <<48, 48, 149, 149, 250, 250, 352, 448>>
      [] vcp = "VCP32" -> <<50, 150, 250, 350, 450>>
      [] vcp = "VCP32D" -> <<48, 48, 149, 149, 250, 352, 448>>

\* ArgminAbs with the last of the nearest entries taken
ArgminAbsLast(l, x) ==
    (CHOOSE k \in 1..Len(l) :
        /\ \A j \in 1..Len(l) : Abs(l[k] - x) <= Abs(l[j] - x)
        /\ \A j \in (k + 1)..Len(l) : Abs(l[j] - x) > Abs(l[k] - x)) - 1

\* np.argmin(np.abs(np.array(l) - x)), also np.where(d == np.min(d))[0][0]:
\* the 0-based index of the first entry of l nearest to x
ArgminAbs(l, x) ==
    (CHOOSE k \in 1..Len(l) :
        /\ \A j \in 1..Len(l) : Abs(l[k] - x) <= Abs(l[j] - x)
        /\ \A j \in 1..(k - 1) : Abs(l[j] - x) > Abs(l[k] - x)) - 1

\* get_standard_elevation returning the 0-based position as the layer id
StandardElevationZeroBased(elevation, vcp) ==
    IF vcp \notin VcpNames THEN Exc("KeyError")
    ELSE LET std_list == vcp_standard_elevation(vcp)
             position == ArgminAbs(std_list, elevation)
         IN Value(<<position, PyAt(std_list, position)>>)

get_standard_elevation(elevation, vcp) ==
    IF vcp \notin VcpNames THEN Exc("KeyError")
    ELSE LET std_list == vcp_standard_elevation(vcp)
             position == ArgminAbs(std_list, elevation)
         IN Value(<<position + 1, PyAt(std_list, position)>>)

get_standard_elevation_byid(layerid, vcp) ==
    IF vcp \notin VcpNames THEN Exc("KeyError")
    ELSE IF PyAtRaises(vcp_standard_elevation(vcp), layerid - 1) THEN Exc("IndexError")
    ELSE Value(PyAt(vcp_standard_elevation(vcp), layerid - 1))

\* cutid in l, for a Python list l
InList(l, x) == \E k \in 1..Len(l) : l[k] = x

has_element(d, cutid, datatype) ==
    IF datatype \notin DOMAIN d.radial THEN Exc("KeyError")
    ELSE Value(InList(d.radial[datatype].elevationNumber, cutid))

\* the loop of get_cut_data_index over the list l: <<start_pos, end_pos>>
CutRun(l, cutid) ==
    LET starts == {k \in 1..Len(l) : l[k] = cutid}
        first == CHOOSE k \in starts : \A j \in starts : k <= j
        ends == {k \in (first + 1)..Len(l) : l[k] # cutid}
    IN IF starts = {} THEN <<None, None>>
       ELSE IF ends = {} THEN <<Some(first - 1), None>>
       ELSE <<Some(first - 1), Some((CHOOSE k \in ends : \A j \in ends : k <= j) - 1)>>

get_cut_data_index(d, cutid, datatype) ==
    LET h == has_element(d, cutid, datatype) IN
    IF h.kind # "value" THEN h
    ELSE IF ~h.val THEN Exc("RadarError")
    ELSE Value(CutRun(d.radial[datatype].elevationNumber, cutid))

get_ku_length(d, layerid, datatype) ==
    IF PyAtRaises(d.common_block.cut_conf, layerid - 1) THEN Exc("IndexError")
    ELSE IF datatype \in {"V", "W"}
    THEN Value(PyAt(d.common_block.cut_conf, layerid - 1).dopplerResolution)
    ELSE Value(PyAt(d.common_block.cut_conf, layerid - 1).logResolution)

\* 10000 * np.cos(np.deg2rad(e)) for e in hundredths of a degree, 0 <= e <= 9000:
\* the cosine series to the fourth power, in units of 1/10000
CosE4(e) ==
    LET x == (e * 1745) \div 1000
        x2 == (x * x) \div 10000
    IN 10000 - x2 \div 2 + (x2 * x2) \div 240000

\* the range test with the ground distance taken for the slant range
BeyondRangeOnGround(distance, cosE4, max_radius) == distance > max_radius

\* radius > max_radius, for radius = distance / cos
BeyondRange(distance, cosE4, max_radius) == distance * 10000 > max_radius * cosE4

\* int(radius / ku_length), for radius = distance / cos >= 0 and ku_length > 0
BinIndex(distance, cosE4, ku_length) == (distance * 10000) \div (cosE4 * ku_length)

\* the height get_value_bypolar returns: it is computed from the ground distance
\* and the nominal elevation of the layer alone, and is kept as that pair
HeightOf(distance, layer_elevation) == <<distance, layer_elevation>>

get_value_bypolar(d, distance, azimuth, layerid, datatype) ==
    LET idx == get_cut_data_index(d, layerid, datatype) IN
    IF idx.kind # "value" THEN idx
    ELSE
    LET start_pos == idx.val[1][1]
        end_pos == idx.val[2]
        radar_data == PySlice(d.radial[datatype].data, start_pos, end_pos)
        azimuth_list == PySlice(d.radial[datatype].azimuth, start_pos, end_pos)
        elev == get_standard_elevation_byid(layerid, d.common_block.task_conf.taskName)
        ku == get_ku_length(d, layerid, datatype)
    IN
    IF elev.kind # "value" THEN elev
    ELSE IF ku.kind # "value" THEN ku
    ELSE
    LET ku_count == Len(radar_data[1])
        max_radius == ku.val * ku_count
        azimuth_index == ArgminAbs(azimuth_list, azimuth)
        bin == BinIndex(distance, CosE4(elev.val), ku.val)
    IN
    IF BeyondRange(distance, CosE4(elev.val), max_radius) THEN Exc("None")
    ELSE IF PyAtRaises(PyAt(radar_data, azimuth_index), bin) THEN Exc("IndexError")
    ELSE Value(<<HeightOf(distance, elev.val), PyAt(PyAt(radar_data, azimuth_index), bin)>>)

\* 1000 * haversine_distance, for two points on the equator
haversine_distance_m(lat1, lon1, lat2, lon2) == (111195 * Abs(lon2 - lon1)) \div 1000

\* calculate_bearing, for two points on the equator
calculate_bearing(lat1, lon1, lat2, lon2) ==
    IF lon2 > lon1 THEN 9000 ELSE IF lon2 < lon1 THEN 27000 ELSE 0

get_value_bylatlon(d, lat, lon, layerid, datatype) ==
    LET site_lat == d.common_block.site_conf.latitude
        site_lon == d.common_block.site_conf.longitude
        distance == haversine_distance_m(lat, lon, site_lat, site_lon)
        azimuth == calculate_bearing(site_lat, site_lon, lat, lon)
    IN get_value_bypolar(d, distance, azimuth, layerid, datatype)

RECURSIVE ValuesLoop(_, _, _, _, _, _)
\* the loop of get_values_bylatlon from the layerid-th cut_conf entry on,
\* result being what the earlier passes appended
ValuesLoop(d, lat, lon, datatype, layerid, result) ==
    IF layerid >= Len(d.common_block.cut_conf) THEN Value(result)
    ELSE LET h == has_element(d, layerid, datatype) IN
         IF h.kind # "value" THEN h
         ELSE IF ~h.val THEN ValuesLoop(d, lat, lon, datatype, layerid + 1, result)
         ELSE LET r == get_value_bylatlon(d, lat, lon, layerid, datatype) IN
              IF r.kind = "None" THEN Exc("TypeError")
              ELSE IF r.kind # "value" THEN r
              ELSE ValuesLoop(d, lat, lon, datatype, layerid + 1,
                              [height |-> Append(result.height, r.val[1]),
                               value |-> Append(result.value, r.val[2])])

get_values_bylatlon(d, lat, lon, datatype) ==
    ValuesLoop(d, lat, lon, datatype, 0, [height |-> <<>>, value |-> <<>>])

\* the values of the Python list l, as set(l) holds them
PySet(l) == {l[k] : k \in 1..Len(l)}

\* get_ppi_data finds rows of differing length in the cut: it writes
\* self.last_error and returns None
PpiInconsistent(d, layerid, datatype) ==
    LET idx == get_cut_data_index(d, layerid, datatype) IN
    /\ idx.kind = "value"
    /\ Cardinality(PySet(PySlice(d.radial[datatype].dataLength,
                                 idx.val[1][1], idx.val[2]))) # 1

\* PpiColumns with the quotient rounded up
PpiColumnsRoundUp(show_range, ku_length) == (show_range + ku_length - 1) \div ku_length

\* int(show_range / ku_length), for show_range >= 0 and ku_length > 0
PpiColumns(show_range, ku_length) == show_range \div ku_length

\* get_ppi_data: (radius, azimuth, elevation, show_data)
get_ppi_data(d, layerid, show_range, datatype) ==
    LET idx == get_cut_data_index(d, layerid, datatype) IN
    IF idx.kind # "value" THEN idx
    ELSE
    LET start_pos == idx.val[1][1]
        end_pos == idx.val[2]
        radar_data == PySlice(d.radial[datatype].data, start_pos, end_pos)
        dataLength == PySlice(d.radial[datatype].dataLength, start_pos, end_pos)
        azimuth == PySlice(d.radial[datatype].azimuth, start_pos, end_pos)
        elevation == PySlice(d.radial[datatype].elevation, start_pos, end_pos)
        ku == get_ku_length(d, layerid, datatype)
    IN
    IF Cardinality(PySet(dataLength)) # 1 THEN Exc("None")
    ELSE IF ku.kind # "value" THEN ku
    ELSE
    LET ku_count == CHOOSE n \in PySet(dataLength) : TRUE
        max_range == ku.val * ku_count
        shown == IF show_range > max_range THEN max_range ELSE show_range
        columns == PpiColumns(shown, ku.val)
        show_data == [i \in 1..Len(radar_data) |-> PyPrefix(radar_data[i], columns)]
        radius == [k \in 1..Len(show_data[1]) |-> k * ku.val]
    IN Value(<<radius, azimuth, elevation, show_data>>)

(* Inputs of the queries *)

QueryTypes == {"dBZ", "V"}
LayerIds == 0..3
PolarLayerIds == {1, 2, 3}
ElevationSamples == {25 * k : k \in 0..80}
QueryVcps == VcpNames \cup {"VCP99"}
Distances == {0, 250, 500, 1000}
QueryAzimuths == {0, 9000}
Longitudes == {0, 2, 5}
ShowRanges == {0, 250, 600, 330000}

\* the radials of the decoded streams: azimuth and row length
RadialShapes == {<<0, 2>>, <<9000, 2>>, <<9000, 1>>}

\* the decoded row of the n-th radial of a stream, of the given length
RowOf(n, length) == [j \in 1..length |-> <<10 * n + j, 1>>]

RECURSIVE DecodedRadials(_, _, _)
\* self.data['radial'] after the first n radials of a stream were decoded, each
\* holding one moment of type key; elevs and shapes give the radial headers
DecodedRadials(key, elevs, shapes) ==
    IF elevs = <<>> THEN <<>>
    ELSE LET n == Len(elevs)
             p == RadialHeader(n, 0, elevs[n], shapes[n][1], 1)
         IN StoreMoment(DecodedRadials(key, SubSeq(elevs, 1, n - 1),
                                       SubSeq(shapes, 1, n - 1)),
                        key, p, RowOf(n, shapes[n][2]))

\* self.data after a stream of cutNumber cuts and the given radials was decoded
DecodedData(cutNumber, key, elevs, shapes) ==
    [common_block |->
        [generic_header |-> [magicNumber |-> RSTM, majorVersion |-> 1, minorVersion |-> 0,
                             genericType |-> 1, productType |-> 1],
         site_conf |-> [siteCode |-> <<90>>, latitude |-> 0, longitude |-> 0,
                        antennaHeight |-> 0],
         task_conf |-> [taskName |-> "VCP21", cutNumber |-> cutNumber],
         cut_conf |-> [i \in 1..cutNumber |-> CutConf(i - 1)]],
     radial_block |-> <<>>,
     radial |-> DecodedRadials(key, elevs, shapes)]

Query(op, args, res) ==
    /\ pc = "idle"
    /\ qop' = op
    /\ qargs' = args
    /\ qres' = res
    /\ UNCHANGED decvars

GetCutDataIndex ==
    /\ status = "ok"
    /\ \E cutid \in LayerIds, datatype \in QueryTypes :
        Query("get_cut_data_index", [cutid |-> cutid, datatype |-> datatype],
              get_cut_data_index(data, cutid, datatype))

GetStandardElevation ==
    \E elevation \in ElevationSamples, vcp \in QueryVcps :
        Query("get_standard_elevation", [elevation |-> elevation, vcp |-> vcp],
              get_standard_elevation(elevation, vcp))

GetValueByPolar ==
    /\ status = "ok"
    /\ \E distance \in Distances, azimuth \in QueryAzimuths, layerid \in PolarLayerIds :
        Query("get_value_bypolar",
              [distance |-> distance, azimuth |-> azimuth, layerid |-> layerid,
               datatype |-> "dBZ"],
              get_value_bypolar(data, distance, azimuth, layerid, "dBZ"))

GetValuesByLatLon ==
    /\ status = "ok"
    /\ \E lon \in Longitudes, datatype \in QueryTypes :
        Query("get_values_bylatlon", [lat |-> 0, lon |-> lon, datatype |-> datatype],
              get_values_bylatlon(data, 0, lon, datatype))

GetPpiData ==
    /\ status = "ok"
    /\ pc = "idle"
    /\ \E layerid \in PolarLayerIds, show_range \in ShowRanges :
         /\ qop' = "get_ppi_data"
         /\ qargs' = [layerid |-> layerid, show_range |-> show_range, datatype |-> "dBZ"]
         /\ qres' = get_ppi_data(data, layerid, show_range, "dBZ")
         /\ last_error' = IF PpiInconsistent(data, layerid, "dBZ") THEN "inconsistent"
                          ELSE last_error
    /\ UNCHANGED <<data, status, pc, pos, short, ci, pdata, ri, magic, blocks, rlog, dh,
                   payload, ndecodes, nfailed>>

\* a reader that has decoded one stream of one moment type
QueryInit ==
    /\ \E cutNumber \in {1, 2}, n \in 1..MaxLen :
       \E elevs \in [1..n -> {1, 2}], shapes \in [1..n -> RadialShapes] :
          data = DecodedData(cutNumber, "dBZ", elevs, shapes)
    /\ last_error = ""
    /\ status = "ok"
    /\ pc = "idle"
    /\ pos = 0
    /\ short = FALSE
    /\ ci = 0
    /\ pdata = <<>>
    /\ ri = 0
    /\ magic = RSTM
    /\ blocks = <<>>
    /\ rlog = <<>>
    /\ dh = <<>>
    /\ payload = <<>>
    /\ ndecodes = 1
    /\ nfailed = 0
    /\ qop = "none"
    /\ qargs = <<>>
    /\ qres = <<>>

QueryNext ==
    \/ GetCutDataIndex
    \/ GetValueByPolar
    \/ GetValuesByLatLon

\* queries on a reader that has decoded a stream
SpecQuery == QueryInit /\ [][QueryNext]_vars

\* get_standard_elevation on a reader as __init__ leaves it
SpecElevation == DecInit /\ [][GetStandardElevation]_vars

\* get_ppi_data on a reader that has decoded a stream
SpecPpi == QueryInit /\ [][GetPpiData]_vars

\* the bytes of the spans: the terminator, an ASCII letter, the two bytes of
\* a gb2312 character, and a byte no gb2312 text holds
SpanBytes == {0, 65, 176, 161, 255}

\* the spans of at most MaxSpan bytes
Spans == UNION {[1..n -> SpanBytes] : n \in 0..MaxSpan}

Encodings == {"None", "gb2312"}

\* rhexgbk(bytes_data, encoding): what it returns, bytes or str, or raises
CallRhexgbk ==
    \E bytes_data \in Spans, encoding \in Encodings :
        Query("rhexgbk", [bytes_data |-> bytes_data, encoding |-> encoding],
              IF RhexRaises(bytes_data, encoding) THEN Exc("UnicodeDecodeError")
              ELSE Value([type |-> IF encoding = "None" THEN "bytes" ELSE "str",
                          chars |-> rhexgbk(bytes_data, encoding)]))

\* rhexgbk on byte spans
SpecText == DecInit /\ [][CallRhexgbk]_vars

----------------------------------------------------------------------------
(* Properties of the decoder *)

Common == data.common_block

RECURSIVE SumOver(_, _)
\* the sum of f[k] over k in 1..n
SumOver(f, n) == IF n = 0 THEN 0 ELSE f[n] + SumOver(f, n - 1)

\* the bytes the moments of one logged radial took from the stream
MomentBytes(r) ==
    SumOver([j \in 1..Len(r.moments) |-> MomentHeaderSize + r.moments[j].got],
            Len(r.moments))

\* the bytes the logged radials took from the stream
RadialBytes ==
    SumOver([k \in 1..Len(rlog) |-> RadialHeaderSize + MomentBytes(rlog[k])], Len(rlog))

\* the number of moments a radial header announces to the moment loop
Announced(r) == IF r.header.momentNumber > 0 THEN r.header.momentNumber ELSE 0

\* the number of rows stored in the dataset, over all moment keys
RECURSIVE StoredRows(_)
StoredRows(keys) ==
    IF keys = {} THEN 0
    ELSE LET k == CHOOSE x \in keys : TRUE
         IN Len(data.radial[k].data) + StoredRows(keys \ {k})

NothingWritten ==
    /\ IsEmpty(Common.generic_header)
    /\ IsEmpty(Common.site_conf)
    /\ IsEmpty(Common.task_conf)
    /\ Common.cut_conf = <<>>
    /\ DOMAIN data.radial = {}

\* C1: a stream whose first 4 bytes are not 'RSTM' makes read_data fail with
\* BadMagic, after the 32-byte generic header alone was read and with nothing
\* written to the dataset.
C1_BadMagicBeforeAnyBlock ==
    (Len(magic) = 4 /\ magic # RSTM) =>
        /\ status = "BadMagic"
        /\ blocks = <<"generic">>
        /\ pos <= GenericHeaderSize
        /\ NothingWritten

\* C2: the radial loop ends exactly at the first radial whose radialState is 4:
\* no radial before it has state 4, a finished radial of another state is
\* followed by a radial header read, every radial has all the moments its
\* header announces decoded and stored when the loop exits, and the bytes
\* consumed end with the last payload of the state-4 radial.
C2_LoopEndsAtFirstState4 ==
    /\ \A k \in 1..(Len(rlog) - 1) : rlog[k].header.radialState # 4
    /\ (status = "reading" /\ rlog # <<>>
          /\ Len(rlog[Len(rlog)].moments) = Announced(rlog[Len(rlog)]))
        => (pc = "radial" /\ rlog[Len(rlog)].header.radialState # 4)
    /\ status = "ok" =>
          /\ rlog # <<>>
          /\ rlog[Len(rlog)].header.radialState = 4
          /\ \A k \in 1..Len(rlog) : Len(rlog[k].moments) = Announced(rlog[k])
          /\ StoredRows(DOMAIN data.radial)
               = SumOver([k \in 1..Len(rlog) |-> Len(rlog[k].moments)], Len(rlog))
          /\ pos = GenericHeaderSize + SiteConfSize + TaskConfSize
                     + CutConfSize * Common.task_conf.cutNumber + RadialBytes
          /\ blocks[Len(blocks)] \in {"radial", "payload"}

C2_Witness ==
    /\ status = "ok"
    /\ Len(rlog) = 2
    /\ Len(rlog[1].moments) = 2
    /\ Len(rlog[2].moments) = 2

\* C3: decode never completes successfully on a stream that ended early: once
\* a read returned fewer bytes than it asked for, read_data does not return a
\* dataset.
C3_NoSuccessOnShortStream ==
    status = "ok" => ~short

\* C4: after a read_data call that failed with a fatal decode error the
\* reader's dataset holds nothing of the failed stream.
C4_NoPartialDataset ==
    status \in {"BadMagic", "StructError", "UnsupportedBinLength", "UnknownDataType"}
        => NothingWritten

PerRadialFields ==
    {"radialState", "spotBlank", "sequenceNumber", "radialNumber", "elevationNumber",
     "azimuth", "elevation", "seconds", "microseconds", "horizontalEstimatedNoise",
     "verticalEstimatedNoise"}

AllArrays == PerRadialFields \cup {"data", "dataLength", "ppiElevation", "rhiAzimuth"}

\* position i of the arrays of key k describes one moment of one logged radial
DescribesOneRadial(k, i) ==
    LET a == data.radial[k] IN
    \E n \in 1..Len(rlog) :
        /\ \A f \in PerRadialFields : a[f][i] = rlog[n].header[f]
        /\ \E j \in 1..Len(rlog[n].moments) :
              /\ rlog[n].moments[j].datakey = k
              /\ rlog[n].moments[j].row = a.data[i]
        /\ a.dataLength[i] = Len(a.data[i])

\* C5 as stated: after a successful decode all fifteen arrays of a moment key
\* have the same length.
C5_AllArraysSameLength ==
    status = "ok" =>
        \A k \in DOMAIN data.radial : \A f, g \in AllArrays :
            Len(data.radial[k][f]) = Len(data.radial[k][g])

\* C5 amended: after a successful decode the thirteen arrays read_data appends
\* to have the same length, at least 1, and position i of each describes the
\* same radial; ppiElevation and rhiAzimuth stay empty.
C5_AppendedArraysParallel ==
    status = "ok" =>
        \A k \in DOMAIN data.radial :
            LET a == data.radial[k] IN
            /\ Len(a.data) >= 1
            /\ \A f \in PerRadialFields \cup {"dataLength"} : Len(a[f]) = Len(a.data)
            /\ a.ppiElevation = <<>>
            /\ a.rhiAzimuth = <<>>
            /\ \A i \in 1..Len(a.data) : DescribesOneRadial(k, i)

C5_Witness ==
    /\ status = "ok"
    /\ DOMAIN data.radial = {"dBZ", "V"}
    /\ Len(data.radial["dBZ"].data) = 2
    /\ data.radial["dBZ"].sequenceNumber = <<1, 2>>

\* every radial header of the stream names a cut of the stream
ValidStream ==
    \A k \in 1..Len(rlog) :
        rlog[k].header.elevationNumber \in 1..Common.task_conf.cutNumber

\* C6: after a successful decode cut_conf has exactly cutNumber elements, in
\* stream order, and every stored elevationNumber lies in 1..cutNumber.
\* Stated for valid streams (every radial header names a cut of its stream)
\* and for a reader none of whose read_data calls has raised.
C6_CutConfHasCutNumberElements ==
    (status = "ok" /\ ValidStream /\ nfailed = 0) =>
        /\ Len(Common.cut_conf) = Common.task_conf.cutNumber
        /\ \A i \in 1..Len(Common.cut_conf) : Common.cut_conf[i] = CutConf(i - 1)
        /\ \A k \in DOMAIN data.radial :
              \A i \in 1..Len(data.radial[k].elevationNumber) :
                  data.radial[k].elevationNumber[i] \in 1..Common.task_conf.cutNumber

----------------------------------------------------------------------------
(* Properties of the queries *)

\* the elevationNumber array of the moment key of the last query
QueryElevations == data.radial[qargs.datatype].elevationNumber

\* each layer id's occurrences in l form one contiguous run
CutMajor(l) ==
    \A a, b \in 1..Len(l) : (a < b /\ l[a] = l[b]) => \A c \in a..b : l[c] = l[a]

\* C7: on a cut-major elevationNumber array get_cut_data_index returns, for a
\* layer id that is present, integers (start, end) with start < end and end
\* exclusive, the range holding exactly the positions of that layer id -- so
\* that the ranges of the layer ids present are disjoint and cover the array,
\* the range of the last run included.
C7_RangesPartitionArray ==
    (qop = "get_cut_data_index" /\ qres.kind = "value" /\ CutMajor(QueryElevations)) =>
        LET start == qres.val[1]
            end == qres.val[2]
        IN /\ start # None
           /\ end # None
           /\ start[1] < end[1]
           /\ end[1] <= Len(QueryElevations)
           /\ \A k \in 1..Len(QueryElevations) :
                 (QueryElevations[k] = qargs.cutid) <=> (start[1] < k /\ k <= end[1])

\* the configured cuts, by 1-based layer id, that hold a radial of the moment key
CutsWithKey(d, datatype) ==
    {c \in 1..Len(d.common_block.cut_conf) :
        InList(d.radial[datatype].elevationNumber, c)}

RECURSIVE Ascending(_)
\* the members of a set of integers in ascending order
Ascending(S) ==
    IF S = {} THEN <<>>
    ELSE LET m == CHOOSE x \in S : \A y \in S : x <= y
         IN <<m>> \o Ascending(S \ {m})

\* every radial of the dataset names a configured cut
ValidData(d, datatype) ==
    \A k \in 1..Len(d.radial[datatype].elevationNumber) :
        d.radial[datatype].elevationNumber[k] \in 1..Len(d.common_block.cut_conf)

\* C8: get_values_bylatlon resolves one (height, value) pair for every
\* configured cut, first through last, whose layer id occurs in the moment
\* key's elevationNumber array, and returns them in cut order in two
\* sequences of equal length.  Stated for targets every such cut resolves.
C8_OnePairPerCutWithKey ==
    LET asked ==
            /\ qop = "get_values_bylatlon"
            /\ qargs.datatype \in DOMAIN data.radial
            /\ ValidData(data, qargs.datatype)
            /\ \A c \in CutsWithKey(data, qargs.datatype) :
                  get_value_bylatlon(data, qargs.lat, qargs.lon, c, qargs.datatype).kind = "value"
        cuts == Ascending(CutsWithKey(data, qargs.datatype))
        onePairPerCut ==
            /\ qres.kind = "value"
            /\ Len(qres.val.height) = Len(cuts)
            /\ Len(qres.val.value) = Len(cuts)
            /\ \A i \in 1..Len(cuts) :
                  <<qres.val.height[i], qres.val.value[i]>>
                    = get_value_bylatlon(data, qargs.lat, qargs.lon, cuts[i], qargs.datatype).val
    IN asked => onePairPerCut

\* the first row of the cut layerid of the moment key: its length is the bin count
FirstRowOfCut(d, layerid, datatype) ==
    LET l == d.radial[datatype].elevationNumber
        k == CHOOSE k \in 1..Len(l) : l[k] = layerid /\ \A j \in 1..(k - 1) : l[j] # layerid
    IN d.radial[datatype].data[k]

\* the query names a cut of the dataset that holds the moment key, and its
\* slant range distance / cos(elevation) exceeds kuLength times the bin count
SlantRangeBeyondMax ==
    /\ qop = "get_value_bypolar"
    /\ InList(QueryElevations, qargs.layerid)
    /\ qargs.layerid \in 1..Len(Common.cut_conf)
    /\ qargs.distance * 10000 >
          Common.cut_conf[qargs.layerid].logResolution
            * Len(FirstRowOfCut(data, qargs.layerid, qargs.datatype))
            * CosE4(vcp_standard_elevation(Common.task_conf.taskName)[qargs.layerid])

\* C9: get_value_bypolar with a slant range beyond kuLength times the bin
\* count of the cut returns None; it raises no IndexError.
C9_BeyondMaxRangeReturnsNone ==
    SlantRangeBeyondMax => qres.kind = "None"

\* the ground distance is within the maximum range, the slant range is beyond it
C9_Witness ==
    /\ SlantRangeBeyondMax
    /\ qargs.distance = Common.cut_conf[qargs.layerid].logResolution
                          * Len(FirstRowOfCut(data, qargs.layerid, qargs.datatype))
    /\ qres.kind = "None"

AsksElevation2InVCP21 ==
    /\ qop = "get_standard_elevation"
    /\ qargs.elevation = 200
    /\ qargs.vcp = "VCP21"

\* C10 as stated: get_standard_elevation(2.0, 'VCP21') returns (2, 1.45).
C10_ReturnsLayer2 ==
    AsksElevation2InVCP21 => qres = Value(<<2, 145>>)

\* C10 amended: get_standard_elevation(2.0, 'VCP21') returns (3, 2.40): of
\* the VCP21 table 2.40 is nearest to 2.0, at 1-based index 3.
C10_ReturnsLayer3 ==
    AsksElevation2InVCP21 => qres = Value(<<3, 240>>)

C10_Witness ==
    /\ AsksElevation2InVCP21
    /\ qres.kind = "value"

\* C11: for every VCP table and every measured elevation get_standard_elevation
\* returns (k, table[k-1]), k the 1-based position of the first entry of the
\* table at minimum absolute difference from the elevation; of two equal
\* consecutive entries the second is never returned.
C11_FirstNearestEntry ==
    (qop = "get_standard_elevation" /\ qargs.vcp \in VcpNames) =>
        LET table == vcp_standard_elevation(qargs.vcp)
            e == qargs.elevation
        IN /\ qres.kind = "value"
           /\ \E k \in 1..Len(table) :
                 /\ qres.val = <<k, table[k]>>
                 /\ \A j \in 1..Len(table) :
                       (IF table[k] >= e THEN table[k] - e ELSE e - table[k])
                         <= (IF table[j] >= e THEN table[j] - e ELSE e - table[j])
                 /\ \A j \in 1..(k - 1) :
                       (IF table[j] >= e THEN table[j] - e ELSE e - table[j])
                         > (IF table[k] >= e THEN table[k] - e ELSE e - table[k])
                 /\ k > 1 => table[k - 1] # table[k]

\* the nearest entry is one of two equal consecutive entries (VCP21D 0.53, 0.53)
C11_Witness ==
    /\ qop = "get_standard_elevation"
    /\ qargs.vcp = "VCP21D"
    /\ qargs.elevation = 50
    /\ qres = Value(<<1, 53>>)

\* C12: get_cut_data_index raises RadarError (element not found), and returns
\* no range, whenever the layer id never occurs for the moment key: when the
\* key holds no radial of that elevationNumber and when the key is absent
\* from the dataset.
C12_ElementNotFound ==
    (/\ qop = "get_cut_data_index"
     /\ \/ qargs.datatype \notin DOMAIN data.radial
        \/ ~InList(data.radial[qargs.datatype].elevationNumber, qargs.cutid))
    => qres = Exc("RadarError")

----------------------------------------------------------------------------
(* Properties of the decoded values *)

\* the moment unpacked last was decoded and stored
LastMomentStored ==
    /\ dh # <<>>
    /\ status \in {"reading", "ok"}

\* the row stored last under the key of the moment unpacked last
LastRow ==
    LET rows == data.radial[get_datatype_byid(dh.dataType)].data IN rows[Len(rows)]

\* the i-th bin of the payload read last: unsigned 8-bit, or unsigned 16-bit
\* with the low byte first
RawBin(i) ==
    IF dh.binLength = 1 THEN payload[i]
    ELSE payload[2 * i - 1] + 256 * payload[2 * i]

\* C13: each decoded bin equals (raw - offset) / scale when scale > 0 and
\* (raw - offset) * scale when scale <= 0, raw being the unsigned 8-bit or
\* 16-bit bin; scale 100, offset 0, binLength 1, raw 50 decodes to 1/2.
C13_BinsDecodedByScale ==
    LastMomentStored =>
        /\ Len(LastRow) = Len(payload) \div dh.binLength
        /\ \A i \in 1..Len(LastRow) :
              IF dh.scale > 0
              THEN /\ LastRow[i][2] > 0
                   /\ LastRow[i][1] * dh.scale = (RawBin(i) - dh.offset) * LastRow[i][2]
              ELSE /\ LastRow[i] = <<(RawBin(i) - dh.offset) * dh.scale, 1>>
                   /\ dh.scale = 0 => LastRow[i] = <<0, 1>>
        /\ (dh.scale = 100 /\ dh.offset = 0 /\ dh.binLength = 1 /\ payload # <<>>
               /\ payload[1] = 50)
             => LastRow[1] = <<1, 2>>

\* a decode that ended with the row of the example stored: 50 decodes to 1/2
C13_Witness ==
    /\ status = "ok"
    /\ dh = [dataType |-> 2, scale |-> 100, offset |-> 0, binLength |-> 1, length |-> 2]
    /\ payload = <<50, 3>>
    /\ LastRow = <<<<1, 2>>, <<3, 100>>>>

\* the moment type code table of the format
TypeTable ==
    {<<1, "dBT">>, <<2, "dBZ">>, <<3, "V">>, <<4, "W">>, <<5, "SQI">>, <<6, "CPA">>,
     <<7, "ZDR">>, <<8, "LDR">>, <<9, "CC">>, <<10, "DP">>, <<11, "KDP">>, <<12, "CP">>,
     <<14, "HCL">>, <<15, "CF">>, <<16, "SNRH">>, <<17, "SNRV">>, <<32, "Zc">>,
     <<33, "Vc">>, <<34, "Wc">>, <<35, "ZDRc">>}

\* the payloads the running / last call read
PayloadsRead == Cardinality({k \in 1..Len(blocks) : blocks[k] = "payload"})

\* the sequence number of the radial that holds the moment unpacked last
LastMomentRadial ==
    LET k == CHOOSE k \in 1..Len(rlog) :
                 rlog[k].moments # <<>> /\ \A j \in (k + 1)..Len(rlog) : rlog[j].moments = <<>>
    IN rlog[k].header.sequenceNumber

----------------------------------------------------------------------------
(* Properties of the display query and of the reader's state *)

\* C15: no query writes state of the reader that queries share: neither the
\* dataset nor any other field of the reader changes in a query step.
C15_QueriesWriteNothing ==
    [][UNCHANGED <<data, last_error>>]_vars

\* the positions of the radials of the cut layerid in the arrays of the key
RadialsOfCut(d, layerid, datatype) ==
    {k \in 1..Len(d.radial[datatype].elevationNumber) :
        d.radial[datatype].elevationNumber[k] = layerid}

\* the query is a get_ppi_data for a cut of a cut-major dataset that is
\* configured, holds the moment key, and whose rows all have one length
PpiOfUniformCut ==
    /\ qop = "get_ppi_data"
    /\ CutMajor(QueryElevations)
    /\ qargs.layerid \in 1..Len(Common.cut_conf)
    /\ RadialsOfCut(data, qargs.layerid, qargs.datatype) # {}
    /\ \A a, b \in RadialsOfCut(data, qargs.layerid, qargs.datatype) :
          Len(data.radial[qargs.datatype].data[a]) = Len(data.radial[qargs.datatype].data[b])

\* C16: for a cut whose rows all have the length binCount get_ppi_data
\* returns a grid of one row per radial of the cut and
\* floor(min(showRange, kuLength * binCount) / kuLength) columns, the leading
\* bins of each row, azimuth and elevation vectors of one entry per row, and
\* a radius axis of one entry per column, its k-th entry k * kuLength.
C16_PpiGrid ==
    PpiOfUniformCut =>
        LET a == data.radial[qargs.datatype]
            cut == RadialsOfCut(data, qargs.layerid, qargs.datatype)
            first == CHOOSE k \in cut : \A j \in cut : k <= j
            binCount == Len(a.data[first])
            kuLength == Common.cut_conf[qargs.layerid].logResolution
            maxRange == kuLength * binCount
            columns == (IF qargs.show_range < maxRange THEN qargs.show_range
                        ELSE maxRange) \div kuLength
        IN /\ qres.kind = "value"
           /\ Len(qres.val[4]) = Cardinality(cut)
           /\ Len(qres.val[2]) = Cardinality(cut)
           /\ Len(qres.val[3]) = Cardinality(cut)
           /\ \A i \in 1..Cardinality(cut) :
                 /\ Len(qres.val[4][i]) = columns
                 /\ \A j \in 1..columns : qres.val[4][i][j] = a.data[first + i - 1][j]
                 /\ qres.val[2][i] = a.azimuth[first + i - 1]
                 /\ qres.val[3][i] = a.elevation[first + i - 1]
           /\ Len(qres.val[1]) = columns
           /\ \A k \in 1..columns : qres.val[1][k] = k * kuLength

\* a show range that is no multiple of the bin length and cuts the rows short
C16_Witness ==
    /\ PpiOfUniformCut
    /\ qargs.layerid = 2
    /\ qargs.show_range = 600
    /\ Cardinality(RadialsOfCut(data, 2, "dBZ")) = 2
    /\ qres.kind = "value"
    /\ qres.val[1] = <<500>>

----------------------------------------------------------------------------
(* Properties of the text extraction *)

\* the longest prefix of the span b that holds no zero byte
ZeroFreePrefix(b) ==
    LET n == CHOOSE n \in 0..Len(b) :
                 /\ \A k \in 1..n : b[k] # 0
                 /\ n < Len(b) => b[n + 1] = 0
    IN SubSeq(b, 1, n)

\* C17: without an encoding rhexgbk returns the longest zero-free prefix of
\* the span, the whole span when it holds no zero byte; with an encoding it
\* returns the decoded zero-free prefix when the span holds a zero byte, and
\* the whole span un-decoded, raising nothing, when it holds none.
C17_TextExtraction ==
    qop = "rhexgbk" =>
        LET span == qargs.bytes_data
            prefix == ZeroFreePrefix(span)
        IN IF qargs.encoding = "None"
           THEN qres = Value([type |-> "bytes", chars |-> prefix])
           ELSE IF prefix # span
           THEN Gb2312Ok(prefix) => qres = Value([type |-> "str", chars |-> Gb2312Text(prefix)])
           ELSE qres = Value([type |-> "bytes", chars |-> span])

----------------------------------------------------------------------------
(* Properties of the bin index and of a reused reader *)

\* C18: whenever get_value_bypolar, asked for a configured cut that holds the
\* moment key, does not return None, the bin index floor(radius / kuLength)
\* lies within the row of the nearest azimuth: the row is indexed without an
\* IndexError and the value is returned -- up to radius = kuLength * binCount
\* and for cuts whose rows differ in length.
C18_BinIndexInRow ==
    (/\ qop = "get_value_bypolar"
     /\ InList(QueryElevations, qargs.layerid)
     /\ qargs.layerid \in 1..Len(Common.cut_conf)
     /\ qres.kind # "None")
    => qres.kind = "value"

\* the moments of the running / last call that were stored under key k
LoggedMoments(k) ==
    {nj \in UNION {{<<n, j>> : j \in 1..Len(rlog[n].moments)} : n \in 1..Len(rlog)} :
        rlog[nj[1]].moments[nj[2]].datakey = k}

\* C19: after any sequence of successful read_data calls on one reader the
\* dataset describes only the stream decoded last: cut_conf has exactly that
\* stream's cutNumber elements, and the arrays of each moment key hold exactly
\* the radials of that stream, nothing of an earlier decode.
C19_OnlyLastDecode ==
    (status = "ok" /\ nfailed = 0) =>
        /\ Len(Common.cut_conf) = Common.task_conf.cutNumber
        /\ \A k \in DOMAIN data.radial :
              /\ Len(data.radial[k].data) = Cardinality(LoggedMoments(k))
              /\ \A i \in 1..Len(data.radial[k].data) : DescribesOneRadial(k, i)

====
